---- MODULE Spec2Model ----
(***************************************************************************)
(* Bank transactions under distributed mutual exclusion.                   *)
(*                                                                         *)
(* R1 = main_og.go (src/unnamed/part_000): Ricart-Agrawala, every account  *)
(*      asks every other account.                                          *)
(* R2 = main.go (src/unnamed/part_001): Roucairol-Carvalho with static     *)
(*      quorums, permits kept in outstandingPermit.                        *)
(* performance_metrics.go holds both behind the flag useQuorum; the model  *)
(* does the same.                                                          *)
(*                                                                         *)
(* Every account has two goroutines: the worker (processTransaction) and   *)
(* the receive loop (range requestChannels[id]).  They share turn,         *)
(* highestTurn and requestCS without a lock, and deferred_queue under      *)
(* deferred_mutex.  One action of the model is one statement of the code   *)
(* that reads or writes shared state; the two goroutines of an account     *)
(* interleave at that grain.  Channels are unbuffered: a send and its      *)
(* receive are one joint action.  time.Sleep changes no state and is left  *)
(* out.                                                                    *)
(***************************************************************************)
EXTENDS Integers, Sequences, FiniteSets, TLC

VARIABLES
  nAccounts,          \* len(accounts)
  useQuorum,          \* FALSE: R1, TRUE: R2
  messages,           \* the transaction list, messages[k+1] is Go's messages[k]
  quorum,             \* Account.quorum, one list per account (R2)
  turn,               \* Account.turn
  highestTurn,        \* Account.highestTurn
  requestCS,          \* Account.requestCS
  last_message_id,    \* Account.last_message_id
  deferred_queue,     \* Account.deferred_queue
  deferred_mutex,     \* Account.deferred_mutex: TRUE while locked
  outstandingPermit,  \* Account.outstandingPermit (R2)
  wpc,                \* the worker's position in processTransaction
  wi,                 \* the worker's loop index i
  stage,              \* "first": first askCS of a transaction, "waiting": funds
                      \* were short, "second": the askCS after the wait
  sentCount,          \* sendRequest's sentCount
  needed,             \* approvals waitForApproval still has to receive
  rpc,                \* the receive loop's position in receiveRequest
  rreq,               \* the request the receive loop is handling
  log,                \* the lines of logs.txt / logs_og.txt
  totalRequests,      \* metrics counter
  totalApprovals,     \* metrics counter
  mainpc,             \* main's position
  mainI,              \* main's index in the initial append loop
  final               \* final.txt and the metrics file, once written

vars == <<nAccounts, useQuorum, messages, quorum, turn, highestTurn, requestCS,
          last_message_id, deferred_queue, deferred_mutex, outstandingPermit,
          wpc, wi, stage, sentCount, needed, rpc, rreq, log, totalRequests,
          totalApprovals, mainpc, mainI, final>>

inputVars == <<nAccounts, useQuorum, messages, quorum>>

Nodes == 0 .. (nAccounts - 1)

----------------------------------------------------------------------------
(* Bounds of the inputs                                                    *)

\* the longest transaction list tried
MaxTransactions == 4

\* the longest log tried when the log reader is checked on its own
MaxLogLines == 2

\* the largest amount in a line of such a log
MaxMoney == 2

----------------------------------------------------------------------------
(* Data                                                                    *)

Msg(f, m, t) == [from |-> f, money |-> m, to |-> t]

\* Go's messages[k]
MessageAt(k) == messages[k + 1]

NoRequest == [turn |-> 0, id |-> -1]

\* Account.NewRequest with askCS's request.turn = account.turn
NewRequest(a) == [turn |-> turn[a], id |-> a]

Max(x, y) == IF x > y THEN x ELSE y

----------------------------------------------------------------------------
(* The log: a line is its list of space-separated tokens.  A token is a    *)
(* text prefix, an optional decimal number and a text suffix.              *)

Word(s) == [pre |-> s, hasNum |-> FALSE, num |-> 0, suf |-> ""]

Num(k, s) == [pre |-> "", hasNum |-> TRUE, num |-> k, suf |-> s]

\* fmt.Sprintf("Participant %d has transferred %d to participant %d.\n", ...)
FormatLine(m) ==
  << Word("Participant"), Num(m.from, ""), Word("has"), Word("transferred"),
     Num(m.money, ""), Word("to"), Word("participant"), Num(m.to, ".") >>

\* strings.TrimPrefix
TrimPrefix(tok, p) ==
  IF tok.pre # "" /\ tok.pre = p THEN [tok EXCEPT !.pre = ""] ELSE tok

\* the bug of a reader that leaves the full stop on the last word
TrimSuffixNone(tok, s) == tok

\* strings.TrimSuffix
TrimSuffix(tok, s) ==
  IF tok.suf # "" /\ tok.suf = s THEN [tok EXCEPT !.suf = ""] ELSE tok

\* strconv.Atoi succeeds on a bare number only
AtoiOk(tok) == tok.hasNum /\ tok.pre = "" /\ tok.suf = ""

\* what one line adds to the balance of id
LineDelta(parts, id) ==
  IF Len(parts) < 8 THEN 0
  ELSE LET fromTok  == TrimPrefix(parts[2], "Participante")
           moneyTok == TrimPrefix(parts[5], "$")
           toTok    == TrimSuffix(TrimPrefix(parts[8], "participante"), ".")
       IN IF ~AtoiOk(fromTok) \/ ~AtoiOk(moneyTok) \/ ~AtoiOk(toTok) THEN 0
          ELSE IF fromTok.num = id THEN 0 - moneyTok.num
          ELSE IF toTok.num = id THEN moneyTok.num
          ELSE 0

RECURSIVE SumLines(_, _, _)
SumLines(lines, k, id) ==
  IF k = 0 THEN 0 ELSE SumLines(lines, k - 1, id) + LineDelta(lines[k], id)

checkAvailableMoney(id) == SumLines(log, Len(log), id)

----------------------------------------------------------------------------
(* Inputs                                                                  *)

\* readQuorums without a quorum.txt: every account lists all accounts
DefaultQuorum(n) == [a \in 0 .. (n - 1) |-> [k \in 1 .. n |-> k - 1]]

\* quorum.txt lines "0,1,2" / "1,2,0" / "2,0,1": every account lists all
\* accounts, itself first
RotatedQuorum(n) ==
  [a \in 0 .. (n - 1) |-> [k \in 1 .. n |-> (a + k - 1) % n]]

\* quorum.txt lines "0,1" / "1,2" / "2,0": every account and its successor
PairQuorum(n) == [a \in 0 .. (n - 1) |-> << a, (a + 1) % n >>]

\* the quorums of scenario S6, accounts 1 and 2 listing each other
S6Quorum == << <<0, 1, 2>>, <<1, 2>>, <<2, 1>>, <<3, 1, 2>> >>

\* quorum.txt is read into a slice indexed from 0
FromZero(seq) == [a \in 0 .. (Len(seq) - 1) |-> seq[a + 1]]

\* every pair of quorums intersects
IsCoterie(qs) ==
  \A a \in DOMAIN qs, b \in DOMAIN qs :
    \E k \in DOMAIN qs[a], l \in DOMAIN qs[b] : qs[a][k] = qs[b][l]

\* transaction lists tried; the model takes their prefixes of length
\* n .. MaxTransactions (main appends messages[0 .. n-1] at start, and the
\* workers take the transactions from messages[1] on)
Streams2 ==
  { << Msg(0, 0, 1), Msg(0, 0, 1), Msg(1, 0, 0), Msg(0, 0, 1), Msg(1, 0, 0) >>,
    << Msg(1, 2, 0), Msg(0, 1, 1), Msg(1, 0, 0), Msg(0, 1, 1), Msg(1, 0, 0) >>,
    \* account 0 also transfers to itself
    << Msg(1, 4, 0), Msg(0, 1, 0), Msg(0, 1, 1), Msg(0, 1, 0), Msg(0, 0, 1) >> }

Streams3 ==
  { << Msg(0, 0, 1), Msg(0, 0, 1), Msg(1, 0, 2), Msg(2, 0, 0), Msg(0, 0, 1) >> }

\* accounts 0 and 3 transfer, accounts 1 and 2 only answer
Streams4 ==
  { << Msg(3, 4, 0), Msg(0, 2, 3), Msg(3, 0, 2), Msg(0, 0, 1), Msg(3, 0, 2) >> }

\* scenario S1: two accounts and the single transaction 0,10,1,0
StreamS1 == << Msg(0, 10, 1) >>

\* a list with a negative amount: account 1 funds account 0 and then takes
\* the money back by a transfer of -1
StreamNeg ==
  << Msg(0, 1, 1), Msg(0, 0, 1), Msg(1, 1, 0), Msg(1, 0 - 1, 0), Msg(0, 0, 1) >>

Prefixes(streams, n) ==
  { SubSeq(s, 1, m) : s \in streams, m \in n .. MaxTransactions }

Input(n, q, ms, qs) == [n |-> n, q |-> q, msgs |-> ms, quorum |-> qs]

InputsR1 ==
  { Input(2, FALSE, ms, DefaultQuorum(2)) : ms \in Prefixes(Streams2, 2) }
  \cup { Input(3, FALSE, ms, DefaultQuorum(3)) : ms \in Prefixes(Streams3, 3) }

InputsR2 ==
  { Input(2, TRUE, ms, DefaultQuorum(2)) : ms \in Prefixes(Streams2, 2) }
  \cup { Input(3, TRUE, ms, qs) :
           ms \in Prefixes(Streams3, 3),
           qs \in {DefaultQuorum(3), RotatedQuorum(3), PairQuorum(3)} }
  \cup { Input(4, TRUE, ms, FromZero(S6Quorum)) : ms \in Prefixes(Streams4, 4) }

----------------------------------------------------------------------------
(* Initial state: after readTransactions, readQuorums, createChannels      *)

InitWith(inputs) ==
  /\ \E inp \in inputs :
       /\ nAccounts = inp.n
       /\ useQuorum = inp.q
       /\ messages = inp.msgs
       /\ quorum = inp.quorum
  /\ turn = [a \in Nodes |-> 0]
  /\ highestTurn = [a \in Nodes |-> 0]
  /\ requestCS = [a \in Nodes |-> FALSE]
  /\ last_message_id = [a \in Nodes |-> 0]
  /\ deferred_queue = [a \in Nodes |-> << >>]
  /\ deferred_mutex = [a \in Nodes |-> FALSE]
  /\ outstandingPermit = [a \in Nodes |-> [p \in Nodes |-> FALSE]]
  /\ wpc = [a \in Nodes |-> "loop"]
  /\ wi = [a \in Nodes |-> 1]
  /\ stage = [a \in Nodes |-> "first"]
  /\ sentCount = [a \in Nodes |-> 0]
  /\ needed = [a \in Nodes |-> 0]
  /\ rpc = [a \in Nodes |-> "idle"]
  /\ rreq = [a \in Nodes |-> NoRequest]
  /\ log = << >>
  /\ totalRequests = 0
  /\ totalApprovals = 0
  /\ mainpc = "append"
  /\ mainI = 0
  /\ final = << >>

----------------------------------------------------------------------------
(* main, before the workers start                                          *)

\* for i := range accounts { registerTransaction(messages[i]) }
\* messages[i] with i >= len(messages) panics: index out of range
MainAppend ==
  /\ mainpc = "append"
  /\ IF mainI >= nAccounts
       THEN mainpc' = "run" /\ UNCHANGED <<mainI, log>>
       ELSE IF mainI >= Len(messages)
         THEN mainpc' = "panic" /\ UNCHANGED <<mainI, log>>
         ELSE /\ log' = Append(log, FormatLine(MessageAt(mainI)))
              /\ mainI' = mainI + 1
              /\ UNCHANGED mainpc
  /\ UNCHANGED <<inputVars, turn, highestTurn, requestCS, last_message_id,
                 deferred_queue, deferred_mutex, outstandingPermit, wpc, wi,
                 stage, sentCount, needed, rpc, rreq, totalRequests,
                 totalApprovals, final>>

\* the goroutines run from their start to main's return
Running == mainpc = "run"

\* the receive loops are started before the initial appends
Receiving == mainpc \in {"append", "run"}

----------------------------------------------------------------------------
(* The worker: processTransaction                                          *)

\* the first index k >= from with messages[k].from == a, or len(messages)
RECURSIVE NextOwn(_, _)
NextOwn(a, k) ==
  IF k >= Len(messages) THEN Len(messages)
  ELSE IF MessageAt(k).from = a THEN k
  ELSE NextOwn(a, k + 1)

\* for i := ...; i < len(messages); i++ { if message.from == account.id {
\*   account.last_message_id = i ...
WorkerLoop(a) ==
  /\ Running
  /\ wpc[a] = "loop"
  /\ LET k == NextOwn(a, wi[a]) IN
       /\ wi' = [wi EXCEPT ![a] = k]
       /\ IF k < Len(messages)
            THEN /\ last_message_id' = [last_message_id EXCEPT ![a] = k]
                 /\ wpc' = [wpc EXCEPT ![a] = "askTurn"]
            ELSE /\ wpc' = [wpc EXCEPT ![a] = "done"]
                 /\ UNCHANGED last_message_id
  /\ UNCHANGED <<inputVars, turn, highestTurn, requestCS, deferred_queue,
                 deferred_mutex, outstandingPermit, stage, sentCount, needed,
                 rpc, rreq, log, totalRequests, totalApprovals, mainpc, mainI,
                 final>>

\* the bug of a wrong sign: account.turn -= account.highestTurn + 1
NextTurnDown(a) == turn[a] - (highestTurn[a] + 1)

\* askCS: account.turn += account.highestTurn + 1
NextTurn(a) == turn[a] + highestTurn[a] + 1

AskTurn(a) ==
  /\ Running
  /\ wpc[a] = "askTurn"
  /\ turn' = [turn EXCEPT ![a] = NextTurn(a)]
  /\ wpc' = [wpc EXCEPT ![a] = "askFlag"]
  /\ UNCHANGED <<inputVars, highestTurn, requestCS, last_message_id,
                 deferred_queue, deferred_mutex, outstandingPermit, wi, stage,
                 sentCount, needed, rpc, rreq, log, totalRequests,
                 totalApprovals, mainpc, mainI, final>>

\* askCS: account.requestCS = true
AskFlag(a) ==
  /\ Running
  /\ wpc[a] = "askFlag"
  /\ requestCS' = [requestCS EXCEPT ![a] = TRUE]
  /\ sentCount' = [sentCount EXCEPT ![a] = 0]
  /\ wpc' = [wpc EXCEPT ![a] = "send"]
  /\ UNCHANGED <<inputVars, turn, highestTurn, last_message_id, deferred_queue,
                 deferred_mutex, outstandingPermit, wi, stage, needed, rpc,
                 rreq, log, totalRequests, totalApprovals, mainpc, mainI,
                 final>>

\* the accounts 0 .. n-1 in order
AllAccounts == [k \in 1 .. nAccounts |-> k - 1]

\* the bug of asking every quorum peer, kept permit or not
NeedsRequestAnyway(a, qid) == qid # a

\* R2: qid != account.id && !account.outstandingPermit[qid]
NeedsRequest(a, qid) == qid # a /\ ~outstandingPermit[a][qid]

\* sendRequest: the accounts the loop sends to, in the order it sends
SendTargets(a) ==
  IF useQuorum
    THEN SelectSeq(quorum[a], LAMBDA qid : NeedsRequest(a, qid))
    ELSE SelectSeq(AllAccounts, LAMBDA i : i # a)

\* requestChannels[t] <- request, taken by t's receive loop
SendRequest(a) ==
  /\ Running
  /\ wpc[a] = "send"
  /\ sentCount[a] < Len(SendTargets(a))
  /\ LET t == SendTargets(a)[sentCount[a] + 1] IN
       /\ rpc[t] = "idle"
       /\ rpc' = [rpc EXCEPT ![t] = "highest"]
       /\ rreq' = [rreq EXCEPT ![t] = NewRequest(a)]
  /\ sentCount' = [sentCount EXCEPT ![a] = @ + 1]
  /\ UNCHANGED <<inputVars, turn, highestTurn, requestCS, last_message_id,
                 deferred_queue, deferred_mutex, outstandingPermit, wpc, wi,
                 stage, needed, log, totalRequests, totalApprovals, mainpc,
                 mainI, final>>

\* the bug of a loop bound of len(accounts) instead of len(accounts)-1
NeededOffByOne(a) == nAccounts

\* waitForApproval: the number of approvals to wait for
NeededApprovals(a) ==
  IF useQuorum
    THEN Len(SelectSeq(quorum[a], LAMBDA qid : NeedsRequest(a, qid)))
    ELSE nAccounts - 1

\* the bug of appending after any askCS without the check
AfterAskNoCheck(a) == "register"

\* where the worker goes when askCS returns
AfterAsk(a) == IF stage[a] = "second" THEN "register" ELSE "check"

\* sendRequest's atomic.AddInt64(&totalRequests, sentCount), then
\* waitForApproval's count of the approvals needed
SendDone(a) ==
  /\ Running
  /\ wpc[a] = "send"
  /\ sentCount[a] = Len(SendTargets(a))
  /\ totalRequests' = totalRequests + sentCount[a]
  /\ needed' = [needed EXCEPT ![a] = NeededApprovals(a)]
  /\ wpc' = [wpc EXCEPT ![a] = IF NeededApprovals(a) = 0 THEN AfterAsk(a)
                                ELSE "wait"]
  /\ UNCHANGED <<inputVars, turn, highestTurn, requestCS, last_message_id,
                 deferred_queue, deferred_mutex, outstandingPermit, wi, stage,
                 sentCount, rpc, rreq, log, totalApprovals, mainpc, mainI,
                 final>>

\* waitForApproval: approverID := <-approveChannels[account.id]
\* the worker's side of one received approval
WaitPc(a) == IF needed[a] = 1 THEN AfterAsk(a) ELSE "wait"

\* the bug of not recording the permit: the entry keeps its old value
PermitNotRecorded(a, approverID) == outstandingPermit[a][approverID]

\* R2: account.outstandingPermit[approverID] = true
PermitOnApproval(a, approverID) == TRUE

\* releaseCS (R2): account.outstandingPermit[request.id] = false
PermitOnRelease(a, requester) == FALSE

\* the receive loop of j delivers its approval to the waiting worker a
ApproveFromRecv(j, a) ==
  /\ Running
  /\ rpc[j] = "approve"
  /\ rreq[j].id = a
  /\ wpc[a] = "wait"
  /\ rpc' = [rpc EXCEPT ![j] = "counted"]
  /\ needed' = [needed EXCEPT ![a] = @ - 1]
  /\ wpc' = [wpc EXCEPT ![a] = WaitPc(a)]
  /\ outstandingPermit' =
       IF useQuorum
         THEN [outstandingPermit EXCEPT ![a][j] = PermitOnApproval(a, j)]
         ELSE outstandingPermit
  /\ UNCHANGED <<inputVars, turn, highestTurn, requestCS, last_message_id,
                 deferred_queue, deferred_mutex, wi, stage, sentCount, rreq,
                 log, totalRequests, totalApprovals, mainpc, mainI, final>>

\* if checkAvailableMoney(account.id) < message.money
Check(a) ==
  /\ Running
  /\ wpc[a] = "check"
  /\ IF checkAvailableMoney(a) < MessageAt(wi[a]).money
       THEN /\ stage' = [stage EXCEPT ![a] = "waiting"]
            /\ wpc' = [wpc EXCEPT ![a] = "relFlag"]
       ELSE /\ wpc' = [wpc EXCEPT ![a] = "register"]
            /\ UNCHANGED stage
  /\ UNCHANGED <<inputVars, turn, highestTurn, requestCS, last_message_id,
                 deferred_queue, deferred_mutex, outstandingPermit, wi,
                 sentCount, needed, rpc, rreq, log, totalRequests,
                 totalApprovals, mainpc, mainI, final>>

\* registerTransaction(message)
Register(a) ==
  /\ Running
  /\ wpc[a] = "register"
  /\ log' = Append(log, FormatLine(MessageAt(wi[a])))
  /\ wpc' = [wpc EXCEPT ![a] = "relFlag"]
  /\ UNCHANGED <<inputVars, turn, highestTurn, requestCS, last_message_id,
                 deferred_queue, deferred_mutex, outstandingPermit, wi, stage,
                 sentCount, needed, rpc, rreq, totalRequests, totalApprovals,
                 mainpc, mainI, final>>

\* the bug of a releaseCS that leaves requestCS set
RelFlagKept(a) ==
  /\ Running
  /\ wpc[a] = "relFlag"
  /\ wpc' = [wpc EXCEPT ![a] = "lock"]
  /\ UNCHANGED <<inputVars, turn, highestTurn, requestCS, last_message_id,
                 deferred_queue, deferred_mutex, outstandingPermit, wi, stage,
                 sentCount, needed, rpc, rreq, log, totalRequests,
                 totalApprovals, mainpc, mainI, final>>

\* releaseCS: account.requestCS = false
RelFlag(a) ==
  /\ Running
  /\ wpc[a] = "relFlag"
  /\ requestCS' = [requestCS EXCEPT ![a] = FALSE]
  /\ wpc' = [wpc EXCEPT ![a] = "lock"]
  /\ UNCHANGED <<inputVars, turn, highestTurn, last_message_id, deferred_queue,
                 deferred_mutex, outstandingPermit, wi, stage, sentCount,
                 needed, rpc, rreq, log, totalRequests, totalApprovals, mainpc,
                 mainI, final>>

\* releaseCS: account.deferred_mutex.Lock()
RelLock(a) ==
  /\ Running
  /\ wpc[a] = "lock"
  /\ ~deferred_mutex[a]
  /\ deferred_mutex' = [deferred_mutex EXCEPT ![a] = TRUE]
  /\ wpc' = [wpc EXCEPT ![a] = "drain"]
  /\ UNCHANGED <<inputVars, turn, highestTurn, requestCS, last_message_id,
                 deferred_queue, outstandingPermit, wi, stage, sentCount,
                 needed, rpc, rreq, log, totalRequests, totalApprovals, mainpc,
                 mainI, final>>

\* the bug of answering the newest deferred request first
DrainPickLast(q) == q[Len(q)]

\* releaseCS: request := account.deferred_queue[0]
DrainPick(q) == Head(q)

\* the bug of a drain that leaves the answered request on the queue
DrainRestKeeps(q) == q

\* releaseCS: account.deferred_queue = account.deferred_queue[1:]
DrainRest(q) == Tail(q)

\* releaseCS, one turn of the loop: the worker j takes a request off its
\* queue, approveRequest delivers the approval to the waiting worker a and
\* counts it, and (R2) the permit from a is dropped
ApproveFromRelease(j, a) ==
  /\ Running
  /\ wpc[j] = "drain"
  /\ Len(deferred_queue[j]) > 0
  /\ DrainPick(deferred_queue[j]).id = a
  /\ a # j
  /\ wpc[a] = "wait"
  /\ deferred_queue' = [deferred_queue EXCEPT ![j] = DrainRest(@)]
  /\ totalApprovals' = totalApprovals + 1
  /\ needed' = [needed EXCEPT ![a] = @ - 1]
  /\ wpc' = [wpc EXCEPT ![a] = WaitPc(a)]
  /\ outstandingPermit' =
       IF useQuorum
         THEN [outstandingPermit EXCEPT ![a][j] = PermitOnApproval(a, j),
                                        ![j][a] = PermitOnRelease(j, a)]
         ELSE outstandingPermit
  /\ UNCHANGED <<inputVars, turn, highestTurn, requestCS, last_message_id,
                 deferred_mutex, wi, stage, sentCount, rpc, rreq, log,
                 totalRequests, mainpc, mainI, final>>

\* releaseCS: the queue is empty, account.deferred_mutex.Unlock(); then
\* the wait for funds, or the next turn of processTransaction's loop
RelUnlock(a) ==
  /\ Running
  /\ wpc[a] = "drain"
  /\ Len(deferred_queue[a]) = 0
  /\ deferred_mutex' = [deferred_mutex EXCEPT ![a] = FALSE]
  /\ IF stage[a] = "waiting"
       THEN /\ wpc' = [wpc EXCEPT ![a] = "spin"]
            /\ UNCHANGED <<wi, stage>>
       ELSE /\ wpc' = [wpc EXCEPT ![a] = "loop"]
            /\ wi' = [wi EXCEPT ![a] = @ + 1]
            /\ stage' = [stage EXCEPT ![a] = "first"]
  /\ UNCHANGED <<inputVars, turn, highestTurn, requestCS, last_message_id,
                 deferred_queue, outstandingPermit, sentCount, needed, rpc,
                 rreq, log, totalRequests, totalApprovals, mainpc, mainI,
                 final>>

\* for checkAvailableMoney(account.id) < message.money {}: the loop ends
\* when the funds are there; a turn that finds them short changes nothing
Spin(a) ==
  /\ Running
  /\ wpc[a] = "spin"
  /\ ~(checkAvailableMoney(a) < MessageAt(wi[a]).money)
  /\ stage' = [stage EXCEPT ![a] = "second"]
  /\ wpc' = [wpc EXCEPT ![a] = "askTurn"]
  /\ UNCHANGED <<inputVars, turn, highestTurn, requestCS, last_message_id,
                 deferred_queue, deferred_mutex, outstandingPermit, wi,
                 sentCount, needed, rpc, rreq, log, totalRequests,
                 totalApprovals, mainpc, mainI, final>>

----------------------------------------------------------------------------
(* The receive loop: receiveRequest                                        *)

\* the bug of a receive that also advances the account's own turn
RecvHighestBumpsTurn(j) ==
  /\ Receiving
  /\ rpc[j] = "highest"
  /\ highestTurn' = [highestTurn EXCEPT ![j] = Max(@, rreq[j].turn)]
  /\ turn' = [turn EXCEPT ![j] = Max(@, rreq[j].turn) + 1]
  /\ rpc' = [rpc EXCEPT ![j] = "decide"]
  /\ UNCHANGED <<inputVars, requestCS, last_message_id, deferred_queue,
                 deferred_mutex, outstandingPermit, wpc, wi, stage, sentCount,
                 needed, rreq, log, totalRequests, totalApprovals, mainpc,
                 mainI, final>>

\* if request.turn > account.highestTurn { account.highestTurn = request.turn }
RecvHighest(j) ==
  /\ Receiving
  /\ rpc[j] = "highest"
  /\ highestTurn' = [highestTurn EXCEPT ![j] = Max(@, rreq[j].turn)]
  /\ rpc' = [rpc EXCEPT ![j] = "decide"]
  /\ UNCHANGED <<inputVars, turn, requestCS, last_message_id, deferred_queue,
                 deferred_mutex, outstandingPermit, wpc, wi, stage, sentCount,
                 needed, rreq, log, totalRequests, totalApprovals, mainpc,
                 mainI, final>>

\* the bug of a rule without the tie-break on the account id
ApprovesNowNoTie(j, request) ==
  \/ ~requestCS[j]
  \/ request.turn < turn[j]

\* !account.requestCS || request.turn < account.turn ||
\*   (request.turn == account.turn && request.id < account.id)
ApprovesNow(j, request) ==
  \/ ~requestCS[j]
  \/ request.turn < turn[j]
  \/ (request.turn = turn[j] /\ request.id < j)

RecvDecide(j) ==
  /\ Receiving
  /\ rpc[j] = "decide"
  /\ rpc' = [rpc EXCEPT ![j] = IF ApprovesNow(j, rreq[j]) THEN "approve"
                                ELSE "defer"]
  /\ UNCHANGED <<inputVars, turn, highestTurn, requestCS, last_message_id,
                 deferred_queue, deferred_mutex, outstandingPermit, wpc, wi,
                 stage, sentCount, needed, rreq, log, totalRequests,
                 totalApprovals, mainpc, mainI, final>>

\* approveRequest: atomic.AddInt64(&totalApprovals, 1), after the send
RecvCounted(j) ==
  /\ Receiving
  /\ rpc[j] = "counted"
  /\ totalApprovals' = totalApprovals + 1
  /\ rpc' = [rpc EXCEPT ![j] = "idle"]
  /\ rreq' = [rreq EXCEPT ![j] = NoRequest]
  /\ UNCHANGED <<inputVars, turn, highestTurn, requestCS, last_message_id,
                 deferred_queue, deferred_mutex, outstandingPermit, wpc, wi,
                 stage, sentCount, needed, log, totalRequests, mainpc, mainI,
                 final>>

\* Lock; account.deferred_queue = append(account.deferred_queue, request);
\* Unlock
RecvDefer(j) ==
  /\ Receiving
  /\ rpc[j] = "defer"
  /\ ~deferred_mutex[j]
  /\ deferred_queue' = [deferred_queue EXCEPT ![j] = Append(@, rreq[j])]
  /\ rpc' = [rpc EXCEPT ![j] = "idle"]
  /\ rreq' = [rreq EXCEPT ![j] = NoRequest]
  /\ UNCHANGED <<inputVars, turn, highestTurn, requestCS, last_message_id,
                 deferred_mutex, outstandingPermit, wpc, wi, stage, sentCount,
                 needed, log, totalRequests, totalApprovals, mainpc, mainI,
                 final>>

----------------------------------------------------------------------------
(* main, after the workers                                                 *)

\* wg.Wait(); registerFinalBalances(accounts); outputMetrics(...)
MainFinish ==
  /\ mainpc = "run"
  /\ \A a \in Nodes : wpc[a] = "done"
  /\ final' = << [balances |-> [a \in Nodes |-> checkAvailableMoney(a)],
                  requests |-> totalRequests,
                  approvals |-> totalApprovals] >>
  /\ mainpc' = "exit"
  /\ UNCHANGED <<inputVars, turn, highestTurn, requestCS, last_message_id,
                 deferred_queue, deferred_mutex, outstandingPermit, wpc, wi,
                 stage, sentCount, needed, rpc, rreq, log, totalRequests,
                 totalApprovals, mainI>>

----------------------------------------------------------------------------
(* Specifications                                                          *)

Next ==
  \/ MainAppend
  \/ MainFinish
  \/ \E a \in Nodes : WorkerLoop(a)
  \/ \E a \in Nodes : AskTurn(a)
  \/ \E a \in Nodes : AskFlag(a)
  \/ \E a \in Nodes : SendRequest(a)
  \/ \E a \in Nodes : SendDone(a)
  \/ \E a \in Nodes : Check(a)
  \/ \E a \in Nodes : Register(a)
  \/ \E a \in Nodes : RelFlag(a)
  \/ \E a \in Nodes : RelLock(a)
  \/ \E a \in Nodes : RelUnlock(a)
  \/ \E a \in Nodes : Spin(a)
  \/ \E a \in Nodes : RecvHighest(a)
  \/ \E a \in Nodes : RecvDecide(a)
  \/ \E a \in Nodes : RecvCounted(a)
  \/ \E a \in Nodes : RecvDefer(a)
  \/ \E j \in Nodes, a \in Nodes : ApproveFromRecv(j, a)
  \/ \E j \in Nodes, a \in Nodes : ApproveFromRelease(j, a)

\* R1: main_og.go
InitR1 == InitWith(InputsR1)

SpecR1 == InitR1 /\ [][Next]_vars

\* R2: main.go
InitR2 == InitWith(InputsR2)

SpecR2 == InitR2 /\ [][Next]_vars

Spec == SpecR1

\* both programs on the smaller inputs: two accounts under each, and the
\* four accounts of scenario S6
InputsBoth ==
  { Input(2, q, ms, DefaultQuorum(2)) :
      q \in BOOLEAN, ms \in Prefixes(Streams2, 2) \cup {StreamS1} }
  \cup { Input(4, TRUE, ms, FromZero(S6Quorum)) : ms \in Prefixes(Streams4, 4) }
  \cup { Input(2, q, ms, DefaultQuorum(2)) :
            q \in BOOLEAN, ms \in Prefixes({StreamNeg}, 4) }

InitBoth == InitWith(InputsBoth)

SpecBoth == InitBoth /\ [][Next]_vars

----------------------------------------------------------------------------
(* The log reader on its own: any lines, then the balances                 *)

\* three accounts, no transactions of their own
LogInputs == { Input(3, q, << >>, DefaultQuorum(3)) : q \in BOOLEAN }

LogMessages ==
  { Msg(f, m, t) : f \in 0 .. 2, m \in 0 .. MaxMoney, t \in 0 .. 2 }

\* registerTransaction(message), for any message
LogAppend(m) ==
  /\ final = << >>
  /\ Len(log) < MaxLogLines
  /\ log' = Append(log, FormatLine(m))
  /\ UNCHANGED <<inputVars, turn, highestTurn, requestCS, last_message_id,
                 deferred_queue, deferred_mutex, outstandingPermit, wpc, wi,
                 stage, sentCount, needed, rpc, rreq, totalRequests,
                 totalApprovals, mainpc, mainI, final>>

\* registerFinalBalances(accounts)
LogRead ==
  /\ final = << >>
  /\ final' = << [balances |-> [a \in Nodes |-> checkAvailableMoney(a)],
                  requests |-> totalRequests,
                  approvals |-> totalApprovals] >>
  /\ UNCHANGED <<inputVars, turn, highestTurn, requestCS, last_message_id,
                 deferred_queue, deferred_mutex, outstandingPermit, wpc, wi,
                 stage, sentCount, needed, rpc, rreq, log, totalRequests,
                 totalApprovals, mainpc, mainI>>

NextLog ==
  \/ \E m \in LogMessages : LogAppend(m)
  \/ LogRead

InitLog == InitWith(LogInputs)

SpecLog == InitLog /\ [][NextLog]_vars

----------------------------------------------------------------------------
(* Properties                                                              *)

\* askCS has returned and releaseCS has not been called
InCS(a) == wpc[a] \in {"check", "register"}

\* inside askCS with the request announced: sending it or awaiting approvals
Outstanding(a) == requestCS[a] /\ wpc[a] \in {"send", "wait"}

\* inside askCS, blocked on a channel
Acquiring(a) == wpc[a] \in {"send", "wait"}

\* the quorum members of a other than a
Peers(a) == { quorum[a][k] : k \in DOMAIN quorum[a] } \ {a}

\* the request of a is smaller than the request of b under (turn, id)
Precedes(a, b) == turn[a] < turn[b] \/ (turn[a] = turn[b] /\ a < b)

\* C1: in R1 at most one account is in the critical section in any
\* reachable state.
C1_MutualExclusionR1 ==
  ~useQuorum =>
    \A a \in Nodes, b \in Nodes : (InCS(a) /\ InCS(b)) => a = b

\* C2: in R2, for a quorum family in which every pair of quorums
\* intersects, no two accounts are in the critical section at the same
\* time.
C2_MutualExclusionR2 ==
  (useQuorum /\ IsCoterie(quorum)) =>
    Cardinality({ a \in Nodes : InCS(a) }) <= 1

\* C3: R1 is deadlock-free: no reachable state has a worker inside askCS
\* while no goroutine can take a step any more.
C3_DeadlockFreeR1 ==
  (~useQuorum /\ \E a \in Nodes : Acquiring(a)) => ENABLED Next

\* C4: R2 is deadlock-free for every coterie, whatever the order of the
\* quorum lists: no reachable state has a worker inside askCS while no
\* goroutine can take a step any more.
C4_DeadlockFreeR2 ==
  (useQuorum /\ IsCoterie(quorum)) =>
    \A a \in Nodes : Acquiring(a) => ENABLED Next

\* C5: every deferred request is answered: a request is never left in the
\* deferred queue of an account whose worker has returned, since only that
\* worker's releaseCS answers it.
C5_DeferredAnswered ==
  \A a \in Nodes : wpc[a] = "done" => Len(deferred_queue[a]) = 0

\* C6: R2 permit validity: every approval account j sends to account a, at
\* once in receiveRequest or from the deferred queue in releaseCS, leaves
\* j's permit from a cleared.
C6_PermitValidity ==
  [][ \A j \in Nodes, a \in Nodes :
        (useQuorum /\ (ApproveFromRecv(j, a) \/ ApproveFromRelease(j, a)))
          => ~outstandingPermit'[j][a] ]_vars

\* C7: total-order priority: while the requests of two accounts are both
\* outstanding, the account with the larger (turn, id) does not enter the
\* critical section.
C7_TotalOrderPriority ==
  [][ \A a \in Nodes, b \in Nodes :
        (Outstanding(a) /\ Outstanding(b) /\ Precedes(a, b)) => ~InCS(b)' ]_vars

\* the configuration of scenario S6
IsS6 == useQuorum /\ nAccounts = 4 /\ quorum = FromZero(S6Quorum)

\* C8: with four accounts, quorum(0) = {0,1,2} and quorum(3) = {3,1,2},
\* accounts 0 and 3 are never in the critical section at the same time.
C8_PartialQuorumExclusion == IsS6 => ~(InCS(0) /\ InCS(3))

\* C9: R2 permit coherence: when askCS has returned at account a, a holds
\* the permit of every other member of its quorum.
C9_PermitCoherence ==
  \A a \in Nodes :
    (useQuorum /\ InCS(a)) => \A p \in Peers(a) : outstandingPermit[a][p]

\* an account is in the critical section on permits it kept: its last
\* askCS sent fewer requests than it has quorum peers
C9_Witness ==
  \E a \in Nodes :
    /\ useQuorum /\ InCS(a)
    /\ Peers(a) # {}
    /\ sentCount[a] < Cardinality(Peers(a))

\* C10: FIFO drain: while releaseCS drains, each step that changes the
\* deferred queue removes its first request, sends one approval to the
\* origin of that request and counts it; nothing is added to the queue;
\* and the drain ends only on an empty queue.
C10_FifoDrain ==
  [][ \A j \in Nodes :
        wpc[j] = "drain" =>
          /\ wpc'[j] = "drain" =>
               \/ deferred_queue'[j] = deferred_queue[j]
               \/ /\ Len(deferred_queue[j]) > 0
                  /\ deferred_queue'[j] = Tail(deferred_queue[j])
                  /\ needed'[Head(deferred_queue[j]).id]
                       = needed[Head(deferred_queue[j]).id] - 1
                  /\ \A b \in Nodes \ {Head(deferred_queue[j]).id} :
                       needed'[b] = needed[b]
                  /\ totalApprovals' = totalApprovals + 1
          /\ wpc'[j] # "drain" =>
               /\ Len(deferred_queue[j]) = 0
               /\ Len(deferred_queue'[j]) = 0 ]_vars

\* a releaseCS is draining a queue that held the requests of two accounts
C10_Witness ==
  \E j \in Nodes :
    /\ wpc[j] = "drain"
    /\ Len(deferred_queue[j]) = 2
    /\ deferred_queue[j][1].id # deferred_queue[j][2].id

\* an approval that is about to be handed to a answers a's current request
ApprovalFor(a) ==
  \E j \in Nodes \ {a} :
    \/ rpc[j] = "approve" /\ rreq[j] = NewRequest(a)
    \/ /\ wpc[j] = "drain" /\ Len(deferred_queue[j]) > 0
       /\ Head(deferred_queue[j]) = NewRequest(a)

\* C11: R1 message count: an askCS ends its sending with exactly N-1
\* requests sent, one to each other account, and the requests counter
\* raised by N-1; it then waits for N-1 approvals, each step of the wait
\* takes one approval that answers this request, and askCS returns only when
\* all N-1 have been taken: 2*(N-1) messages per entry.
C11_MessageCountR1 ==
  [][ \A a \in Nodes :
        ~useQuorum =>
          /\ (wpc[a] = "send" /\ wpc'[a] # "send") =>
               /\ sentCount[a] = nAccounts - 1
               /\ { SendTargets(a)[k] : k \in 1 .. sentCount[a] } = Nodes \ {a}
               /\ totalRequests' = totalRequests + (nAccounts - 1)
               /\ needed'[a] = nAccounts - 1
          /\ (wpc[a] = "wait" /\ needed'[a] # needed[a]) =>
               /\ needed'[a] = needed[a] - 1
               /\ ApprovalFor(a)
          /\ (Acquiring(a) /\ InCS(a)') =>
               /\ sentCount[a] = nAccounts - 1
               /\ needed'[a] = 0 ]_vars

\* an R1 account of three is in the critical section after both its peers
\* approved, and it is not the first entry of the run
C11_Witness ==
  \E a \in Nodes :
    /\ ~useQuorum /\ nAccounts = 3 /\ InCS(a)
    /\ sentCount[a] = 2 /\ needed[a] = 0
    /\ totalRequests >= 4

\* the quorum peers of a whose permit a does not hold
Unpermitted(a) == { p \in Peers(a) : ~outstandingPermit[a][p] }

\* C12: R2 message count and permit retention: every request of an askCS
\* goes to a quorum peer whose permit is not held; when the sending ends,
\* one request has gone to each such peer and to no one else, the requests
\* counter has grown by that number, which is |quorum| - 1 - permits held
\* and at most N-1, and the same number of approvals is waited for, each
\* answering this request; with the permits of all peers held, askCS sends
\* nothing and returns without an approval.
C12_MessageCountR2 ==
  [][ \A a \in Nodes :
        useQuorum =>
          /\ (wpc[a] = "send" /\ sentCount'[a] # sentCount[a]) =>
               /\ sentCount'[a] = sentCount[a] + 1
               /\ \E t \in Unpermitted(a) :
                    /\ rpc[t] = "idle" /\ rpc'[t] = "highest"
                    /\ rreq'[t] = NewRequest(a)
          /\ (wpc[a] = "send" /\ wpc'[a] # "send") =>
               /\ { SendTargets(a)[k] : k \in 1 .. sentCount[a] }
                    = Unpermitted(a)
               /\ sentCount[a] = Cardinality(Peers(a))
                    - Cardinality({ p \in Peers(a) : outstandingPermit[a][p] })
               /\ sentCount[a] <= nAccounts - 1
               /\ totalRequests' = totalRequests + sentCount[a]
               /\ needed'[a] = sentCount[a]
               /\ Unpermitted(a) = {} => (sentCount[a] = 0 /\ InCS(a)')
          /\ (wpc[a] = "wait" /\ needed'[a] # needed[a]) =>
               /\ needed'[a] = needed[a] - 1
               /\ ApprovalFor(a)
          /\ (Acquiring(a) /\ InCS(a)') => needed'[a] = 0 ]_vars

\* an account with two quorum peers is in the critical section and its
\* last askCS sent no request at all
C12_Witness ==
  \E a \in Nodes :
    /\ useQuorum /\ InCS(a)
    /\ Cardinality(Peers(a)) = 2
    /\ sentCount[a] = 0
    /\ totalRequests >= 2

\* C13: clock monotonicity: no step of R1 or R2 lowers the turn of any
\* account.
C13_ClockMonotone ==
  [][ \A a \in Nodes : turn'[a] >= turn[a] ]_vars

\* an account is in the critical section on its second request: its turn
\* has been raised twice
C13_Witness ==
  \E a \in Nodes : InCS(a) /\ turn[a] >= 3 /\ wi[a] >= 3

\* the sum of f[0] .. f[k]
RECURSIVE SumUpTo(_, _)
SumUpTo(f, k) == IF k < 0 THEN 0 ELSE f[k] + SumUpTo(f, k - 1)

\* the balance of every account as the log gives it
Balances == [a \in Nodes |-> checkAvailableMoney(a)]

\* C14: conservation of money: in every reachable state the balances read
\* from the log sum to zero over all accounts, and so do the final balances
\* when they are written, transfers of an account to itself included.
C14_Conservation ==
  /\ SumUpTo(Balances, nAccounts - 1) = 0
  /\ final # << >> => SumUpTo(final[1].balances, nAccounts - 1) = 0

\* the transfer a log line records: the numbers of its second, fifth and
\* eighth word
LineEntry(parts) ==
  [from |-> parts[2].num, money |-> parts[5].num, to |-> parts[8].num]

\* +amount where to = id and -amount where from = id, both where both hold
EntryDelta(e, id) ==
  (IF e.to = id THEN e.money ELSE 0) - (IF e.from = id THEN e.money ELSE 0)

RECURSIVE SumEntries(_, _, _)
SumEntries(lines, k, id) ==
  IF k = 0 THEN 0
  ELSE SumEntries(lines, k - 1, id) + EntryDelta(LineEntry(lines[k]), id)

\* C15: balance reconstruction: for every log and every account id,
\* checkAvailableMoney(id) is the sum over the log's entries of +amount for
\* to = id and -amount for from = id, both terms for an entry with
\* from = to = id; the balances written at the end are these sums.
C15_BalanceReconstruction ==
  /\ \A id \in Nodes : checkAvailableMoney(id) = SumEntries(log, Len(log), id)
  /\ final # << >> =>
       \A id \in Nodes : final[1].balances[id] = SumEntries(log, Len(log), id)

\* how many times x occurs in seq
Count(seq, x) == Cardinality({ k \in DOMAIN seq : seq[k] = x })

\* the net of the input transactions for id
RECURSIVE NetOfInputs(_, _)
NetOfInputs(k, id) ==
  IF k = 0 THEN 0 ELSE NetOfInputs(k - 1, id) + EntryDelta(messages[k], id)

\* all workers have returned
AllDone == \A a \in Nodes : wpc[a] = "done"

\* C16: no transaction is skipped or repeated: main gets as far as starting
\* the workers; once every worker has returned, the log holds each input
\* transaction's line exactly as often as the input list holds the
\* transaction, and nothing else; and the final balances are the nets of
\* the input transactions.
C16_NoSkipNoRepeat ==
  /\ mainpc # "panic"
  /\ AllDone =>
       /\ Len(log) = Len(messages)
       /\ \A k \in DOMAIN messages :
            Count(log, FormatLine(messages[k])) = Count(messages, messages[k])
  /\ final # << >> =>
       \A id \in Nodes :
         final[1].balances[id] = NetOfInputs(Len(messages), id)

\* C17: every append to the log is made by an account that is in the
\* critical section: each step that changes the log adds one line and is
\* the step of a worker between the return of its askCS and its releaseCS.
C17_AppendInsideCS ==
  [][ log' # log =>
        /\ Len(log') = Len(log) + 1
        /\ \E a \in Nodes : InCS(a) /\ wpc'[a] # wpc[a] ]_vars

\* the worker is in the wait for funds of processTransaction
WaitingForFunds(a) == wpc[a] = "spin"

\* C18: the wait for funds holds no critical section: the wait starts only
\* when releaseCS has run to its end; while it lasts requestCS is false and
\* the account is not in the critical section; from the moment the funds
\* were found short to the end of the wait the worker appends nothing; and
\* every request its receive loop decides on during the wait is approved,
\* none deferred.
C18_WaitHoldsNoCS ==
  [][ \A a \in Nodes :
        /\ (~WaitingForFunds(a) /\ WaitingForFunds(a)') =>
             /\ wpc[a] = "drain" /\ Len(deferred_queue[a]) = 0
             /\ ~deferred_mutex'[a]
        /\ WaitingForFunds(a) =>
             /\ ~requestCS[a] /\ ~InCS(a)
             /\ log' = log \/ wpc'[a] = wpc[a]
             /\ (rpc[a] = "decide" /\ rpc'[a] # "decide") => rpc'[a] = "approve"
        /\ (stage[a] = "waiting" /\ log' # log) => wpc'[a] = wpc[a] ]_vars

\* during the wait for funds of an account its receive loop is approving a
\* request that came in
C18_Witness ==
  \E a \in Nodes :
    /\ WaitingForFunds(a)
    /\ rpc[a] = "approve"
    /\ checkAvailableMoney(a) < MessageAt(wi[a]).money

\* C19: acquire step 1: every askCS, the first and the later ones, sets the
\* turn of the account to exactly highestTurn + 1, and every request it
\* sends carries a turn greater than the turn of every request the account
\* has received by then.
C19_TurnIsHighestPlusOne ==
  [][ \A a \in Nodes :
        /\ (wpc[a] = "askTurn" /\ wpc'[a] # "askTurn") =>
             turn'[a] = highestTurn[a] + 1
        /\ (wpc[a] = "send" /\ sentCount'[a] # sentCount[a]) =>
             turn[a] > highestTurn[a] ]_vars

\* C20: the priority rule: receiveRequest first raises highestTurn to the
\* larger of highestTurn and the request's turn; it then approves at once
\* if and only if the account is not requesting, or the request's turn is
\* smaller than the account's, or the turns are equal and the requester's
\* id is smaller; an approval goes to the requester alone and leaves the
\* deferred queue as it is; otherwise the request is appended to the
\* deferred queue and no approval is sent.
C20_PriorityRule ==
  [][ \A j \in Nodes :
        rpc'[j] # rpc[j] =>
          /\ rpc[j] = "idle" => rpc'[j] = "highest"
          /\ rpc[j] = "highest" =>
               /\ rpc'[j] = "decide"
               /\ highestTurn'[j] =
                    (IF rreq[j].turn > highestTurn[j] THEN rreq[j].turn
                     ELSE highestTurn[j])
          /\ rpc[j] = "decide" =>
               /\ rpc'[j] \in {"approve", "defer"}
               /\ rpc'[j] = "approve" <=>
                    \/ ~requestCS[j]
                    \/ rreq[j].turn < turn[j]
                    \/ (rreq[j].turn = turn[j] /\ rreq[j].id < j)
          /\ rpc[j] = "approve" =>
               /\ needed'[rreq[j].id] = needed[rreq[j].id] - 1
               /\ \A b \in Nodes \ {rreq[j].id} : needed'[b] = needed[b]
               /\ deferred_queue' = deferred_queue
          /\ rpc[j] = "defer" =>
               /\ deferred_queue'[j] = Append(deferred_queue[j], rreq[j])
               /\ needed' = needed
               /\ totalApprovals' = totalApprovals ]_vars

\* a requesting account approves a request with its own turn because the
\* requester's id is smaller
C20_Witness ==
  \E j \in Nodes :
    /\ rpc[j] = "approve"
    /\ requestCS[j]
    /\ rreq[j].turn = turn[j]
    /\ rreq[j].id < j

\* the worker of a starts registerTransaction
StartsAppend(a) == wpc[a] # "register" /\ wpc'[a] = "register"

\* the funds of a cover the transaction its worker is at
FundsSuffice(a) == ~(checkAvailableMoney(a) < MessageAt(wi[a]).money)

\* C21 as stated: the balance is checked after every askCS, the re-acquire
\* after a wait for funds included: a worker comes to its append only from
\* the comparison of the balance with the amount.
C21_CheckedEveryAttempt ==
  [][ \A a \in Nodes : StartsAppend(a) => wpc[a] = "check" ]_vars

\* C21 amended: the balance is read from the log and compared with the
\* amount after the first askCS of a transaction and on every turn of the
\* wait for funds; the askCS after the wait is followed by the append with
\* no further read; every append follows a read that found the funds
\* sufficient.
C21_CheckedBeforeAppend ==
  [][ \A a \in Nodes :
        /\ (Acquiring(a) /\ ~Acquiring(a)') =>
             wpc'[a] = (IF stage[a] = "second" THEN "register" ELSE "check")
        /\ (wpc[a] = "check" /\ wpc'[a] # "check") =>
             IF FundsSuffice(a)
               THEN wpc'[a] = "register" /\ stage'[a] = stage[a]
               ELSE wpc'[a] = "relFlag" /\ stage'[a] = "waiting"
        /\ (stage[a] # "second" /\ stage'[a] = "second") =>
             wpc[a] = "spin" /\ FundsSuffice(a)
        /\ StartsAppend(a) =>
             \/ wpc[a] = "check" /\ FundsSuffice(a)
             \/ stage[a] = "second" /\ Acquiring(a) ]_vars

\* a worker is at its append after a wait for funds and a second askCS
C21_Witness ==
  \E a \in Nodes : wpc[a] = "register" /\ stage[a] = "second"

\* the receive loop of j takes a step of receiveRequest
ReceiveStep(j) == rpc[j] # "idle" /\ rpc'[j] # rpc[j]

\* C22: handling an incoming request does not change the receiving
\* account's part in the critical section: every step of receiveRequest
\* leaves the account's requestCS and turn as they are, and in R1 also its
\* worker's position and counters, its index into the transactions, its
\* mutex and the log; only highestTurn, the deferred queue and the
\* approvals counter may change, whether the account is idle, requesting
\* or in the critical section.
C22_ReceiveFrame ==
  [][ \A j \in Nodes :
        ReceiveStep(j) =>
          /\ requestCS'[j] = requestCS[j]
          /\ turn'[j] = turn[j]
          /\ ~useQuorum =>
               /\ wpc'[j] = wpc[j] /\ wi'[j] = wi[j] /\ stage'[j] = stage[j]
               /\ sentCount'[j] = sentCount[j] /\ needed'[j] = needed[j]
               /\ last_message_id'[j] = last_message_id[j]
               /\ deferred_mutex'[j] = deferred_mutex[j]
               /\ outstandingPermit'[j] = outstandingPermit[j]
               /\ log' = log /\ totalRequests' = totalRequests
               /\ final' = final ]_vars

\* a request with a larger turn than the account's own is being handled
\* while the account is in the critical section
C22_Witness ==
  \E j \in Nodes :
    /\ InCS(j)
    /\ rpc[j] \in {"decide", "defer"}
    /\ rreq[j].turn > turn[j]

\* C23 as stated: the reader returns 0 for every account on every log the
\* writer produces, and no worker takes the branch for insufficient funds.
C23_ReaderAlwaysZero ==
  /\ \A id \in Nodes : checkAvailableMoney(id) = 0
  /\ \A a \in Nodes : stage[a] = "first"

\* what a written line gives id: the debit of its sender, or else the
\* credit of its receiver
WrittenDelta(e, id) ==
  IF e.from = id THEN 0 - e.money ELSE IF e.to = id THEN e.money ELSE 0

RECURSIVE SumWritten(_, _, _)
SumWritten(lines, k, id) ==
  IF k = 0 THEN 0
  ELSE SumWritten(lines, k - 1, id) + WrittenDelta(LineEntry(lines[k]), id)

\* the reader agrees with the lines as written
ReadsWritten ==
  \A id \in Nodes : checkAvailableMoney(id) = SumWritten(log, Len(log), id)

\* C23 amended: the reader parses every line the writer produces: for
\* every log written by registerTransaction and every account id,
\* checkAvailableMoney(id) is the sum over the lines of -amount where
\* from = id and of +amount where to = id and from is another account; a
\* worker takes the branch for insufficient funds exactly when that sum is
\* below the amount of its transaction.
C23_ReaderParsesWriter ==
  [][ /\ ReadsWritten'
      /\ \A a \in Nodes :
           (wpc[a] = "check" /\ wpc'[a] # "check") =>
             (stage'[a] = "waiting"
                <=> SumWritten(log, Len(log), a) < MessageAt(wi[a]).money) ]_vars

\* a worker has taken the branch for insufficient funds on a balance the
\* reader gives as negative
C23_Witness ==
  \E a \in Nodes :
    /\ stage[a] = "waiting"
    /\ wpc[a] = "spin"
    /\ checkAvailableMoney(a) < 0

\* C24: an account in the critical section sends no approval: while its
\* askCS has returned and its releaseCS has not started, every request its
\* receive loop decides on is deferred, and its receive loop hands over no
\* approval, in R1 and in R2.
C24_NoApprovalInCS ==
  [][ \A j \in Nodes :
        InCS(j) =>
          /\ (rpc[j] = "decide" /\ rpc'[j] # "decide") => rpc'[j] = "defer"
          /\ ~(rpc[j] = "approve" /\ rpc'[j] = "counted") ]_vars

\* the requests of a that j holds unanswered: the one its receive loop is
\* handling and those on its deferred queue
CopiesAt(j, a) ==
  (IF rpc[j] \in {"highest", "decide", "approve", "defer"} /\ rreq[j].id = a
     THEN 1 ELSE 0)
  + Cardinality({ k \in DOMAIN deferred_queue[j] : deferred_queue[j][k].id = a })

\* the accounts that still owe a an approval
Holders(a) == { j \in Nodes \ {a} : CopiesAt(j, a) > 0 }

\* every unanswered request of a that j holds is a's current request
HoldsCurrent(j, a) ==
  /\ (rpc[j] \in {"highest", "decide", "approve", "defer"} /\ rreq[j].id = a)
       => rreq[j] = NewRequest(a)
  /\ \A k \in DOMAIN deferred_queue[j] :
       deferred_queue[j][k].id = a => deferred_queue[j][k] = NewRequest(a)

\* C25: approvals match the current request: an approval can be on its way
\* to an account only while that account is inside askCS with requestCS
\* set; every account holds at most one unanswered request of another, and
\* it is that account's current request; in R1 the approvals an account
\* still waits for are exactly one per peer that holds its request
\* unanswered, so when it enters the critical section each of the N-1 peers
\* has answered once and no approval is left for a later askCS.
C25_ApprovalsMatchRequest ==
  \A a \in Nodes :
    /\ \A j \in Nodes \ {a} : CopiesAt(j, a) <= 1 /\ HoldsCurrent(j, a)
    /\ CopiesAt(a, a) = 0
    /\ Holders(a) # {} => (Acquiring(a) /\ requestCS[a])
    /\ (~useQuorum /\ wpc[a] = "wait") =>
         needed[a] = Cardinality(Holders(a))
    /\ (~useQuorum /\ wpc[a] = "send") =>
         sentCount[a] >= Cardinality(Holders(a))
    /\ InCS(a) => Holders(a) = {}

\* an R1 account of three waits for its last approval, which is due from
\* the deferred queue of a peer
C25_Witness ==
  \E a \in Nodes, j \in Nodes :
    /\ ~useQuorum /\ nAccounts = 3
    /\ wpc[a] = "wait" /\ needed[a] = 1
    /\ Len(deferred_queue[j]) > 0
    /\ Head(deferred_queue[j]).id = a

\* C26: the metrics counters stay consistent: in every reachable state the
\* approvals counter is at most the requests counter, and once all workers
\* have returned the two are equal and every deferred queue is empty.
C26_MetricsConsistent ==
  /\ totalApprovals <= totalRequests
  /\ AllDone =>
       /\ totalRequests = totalApprovals
       /\ \A a \in Nodes : Len(deferred_queue[a]) = 0

\* the worker of a appends its transaction
Appends(a) == wpc[a] = "register" /\ wpc'[a] # "register"

\* no transaction of the input has a negative amount
NonNegativeAmounts == \A k \in DOMAIN messages : messages[k].money >= 0

\* C27 as stated: a worker never overdraws: whenever a worker appends a
\* transaction, the balance of its account as the log gives it is at least
\* the amount, also after a wait for funds and a second askCS.
C27_NeverOverdraws ==
  [][ \A a \in Nodes :
        Appends(a) => checkAvailableMoney(a) >= MessageAt(wi[a]).money ]_vars

\* C27 amended: for a transaction list without negative amounts, whenever
\* a worker appends a transaction the balance of its account as the log
\* gives it is at least the amount, also after a wait for funds and a
\* second askCS.
C27_NeverOverdrawsNonNegative ==
  [][ \A a \in Nodes :
        (NonNegativeAmounts /\ Appends(a)) =>
          checkAvailableMoney(a) >= MessageAt(wi[a]).money ]_vars

\* with no negative amount in the input, a worker is at its append after a
\* wait for funds, with funds that another account's transfer brought
C27_Witness ==
  \E a \in Nodes :
    /\ NonNegativeAmounts
    /\ wpc[a] = "register" /\ stage[a] = "second"
    /\ Len(log) > nAccounts
    /\ checkAvailableMoney(a) >= MessageAt(wi[a]).money

====
